---- MODULE Spec2Model ----
(***************************************************************************)
(* A model of the liquid-glass lens components of jnthnmyrs/glasstime.     *)
(*                                                                         *)
(*   lens    LiquidGlassLens (src/components/LiquidGlassLens.tsx): the     *)
(*           DOM-snapshot lens with throttled html2canvas captures.        *)
(*   canvas  LiquidGlassCanvas, the full-screen text canvas with the lens  *)
(*           drawn by its fragment shader, in the three versions the       *)
(*           repository holds: src/components/LiquidGlassCanvas.tsx,       *)
(*           src/unnamed/part_003 (tracks isTouching) and                  *)
(*           src/unnamed/part_002 (mouse only).                            *)
(*   shader  one invocation of a LiquidGlassCanvas fragment shader.        *)
(*   wrap    a run of the word-wrapping loop of createTextTexture on a     *)
(*           list of words and a maximum width.                            *)
(*   page    the hold-to-reveal page (src/unnamed/part_001, second Home),   *)
(*           which shows the lens while the left mouse button is down.     *)
(*   glass   the Lens component of src/components/LiquidGlass/Lens.tsx     *)
(*           with its hook useWebGL (src/unnamed/part_004).                *)
(*                                                                         *)
(* Every React component is modelled at the granularity of one event-loop  *)
(* task: an event handler, a timer callback or the continuation of an      *)
(* await, together with the re-render and the effects it triggers, is one  *)
(* action.  Component state lives in a record whose fields carry the       *)
(* names of the refs and useState cells of the source.                     *)
(*                                                                         *)
(* Times are in milliseconds.  The code reads Date.now() only to compare   *)
(* it with an earlier reading, and arms timers with fixed delays, so the   *)
(* model keeps the differences instead of the readings: captureAge is      *)
(* Date.now() - lastCaptureTimeRef.current (saturating at AgeCap, above    *)
(* every threshold it is compared with), and a timer is the time left      *)
(* until it fires (NoTimer when it is not armed).  A canvas element is     *)
(* named by its relation to the document: glRef is "current" when it       *)
(* holds the context of the canvas that is mounted now and "detached"      *)
(* when that canvas has been removed.                                      *)
(***************************************************************************)
EXTENDS Integers, Sequences, FiniteSets, TLC

VARIABLES lens, canvas, shader, page, wrap, glass

vars == <<lens, canvas, shader, page, wrap, glass>>

\* The value of a component that a specification does not instantiate.
Idle == "idle"

(***************************************************************************)
(* Bounds of the model.                                                    *)
(***************************************************************************)
\* Captures started in one behaviour.
MaxCaptures == 2
\* Fingers on the screen.
MaxTouches == 2

Viewports == {<<360, 640>>, <<1024, 768>>}
PointerPositions == {<<200, 600>>}

Min(a, b) == IF a < b THEN a ELSE b

(***************************************************************************)
(* LiquidGlassLens                                                         *)
(***************************************************************************)
MobileViewportWidth == 768
MinCaptureIntervalMobile == 2000
MinCaptureIntervalDesktop == 1000
InteractionSettleDelay == 500
RefreshMinAgeMobile == 3000
RefreshMinAgeDesktop == 2000
RefreshPeriodMobile == 5000
RefreshPeriodDesktop == 3000
InteractionCaptureAge == 1000

\* The clock advances in steps of the shortest delay of the code.
TickMs == InteractionSettleDelay
AgeCap == RefreshMinAgeMobile + TickMs
NoTimer == 0 - 1

\* checkMobile: a touch device with a narrow viewport.
LensCheckMobile(isTouchDevice, innerWidth) ==
  isTouchDevice /\ innerWidth <= MobileViewportWidth

MinCaptureInterval(isMobile) ==
  IF isMobile THEN MinCaptureIntervalMobile ELSE MinCaptureIntervalDesktop

RefreshMinAge(isMobile) ==
  IF isMobile THEN RefreshMinAgeMobile ELSE RefreshMinAgeDesktop

RefreshPeriod(isMobile) ==
  IF isMobile THEN RefreshPeriodMobile ELSE RefreshPeriodDesktop

\* What the async function captureTexture hands to its caller.  Every path
\* (the early returns, the end of the try block, the catch block) ends in a
\* promise resolved with undefined; nothing is rethrown.
CaptureReturn(outcome) == "resolved_undefined"

\* The component's JSX: the canvas is rendered unless the component returns
\* null.
CanvasPresent(l) == l.isVisible /\ ~(l.isMobile /\ ~l.isLensActive)

\* React attaches canvasRef to the rendered canvas element and nulls it
\* when the element is removed; a canvas rendered again is a new element.
RemoveCanvas(l) ==
  [l EXCEPT !.canvasRef = "null",
            !.glRef = IF l.glRef = "current" THEN "detached" ELSE l.glRef,
            !.inflight = {[c EXCEPT !.canvasEl = "detached"] : c \in l.inflight},
            !.visibility = ""]

UpdateCanvasRef(l) ==
  IF ~CanvasPresent(l)
  THEN IF l.canvasRef = "null" THEN l ELSE RemoveCanvas(l)
  ELSE IF l.canvasRef # "null" THEN l
  ELSE [l EXCEPT !.canvasRef = "canvas", !.visibility = ""]

\* initWebGL.  glRef is assigned before the shaders are compiled.
InitWebGL(l) ==
  IF l.glRef # "null" THEN [l |-> l, success |-> TRUE]
  ELSE IF l.canvasRef = "null" THEN [l |-> l, success |-> FALSE]
  ELSE IF l.webgl = "noContext" THEN [l |-> l, success |-> FALSE]
  ELSE IF l.webgl = "shaderFail"
       THEN [l |-> [l EXCEPT !.glRef = "current"], success |-> FALSE]
  ELSE [l |-> [l EXCEPT !.glRef = "current", !.programRef = TRUE],
        success |-> TRUE]

\* captureTexture with lastCaptureTime stamped before the throttle test
\* instead of after it.
CaptureTextureStampFirst(l) ==
  IF l.glRef = "null" \/ ~l.programRef \/ l.canvasRef = "null" THEN l
  ELSE IF l.captureAge < MinCaptureInterval(l.isMobile)
       THEN [l EXCEPT !.captureAge = 0]
  ELSE [l EXCEPT !.captureAge = 0,
                 !.captureSeq = l.captureSeq + 1,
                 !.inflight = l.inflight \cup
                    {[id |-> l.captureSeq + 1, canvasEl |-> "current",
                      originalVisibility |-> l.visibility]},
                 !.visibility = "hidden"]

\* captureTexture up to its await: the guards, the throttle, the time
\* stamp, hiding the canvas and starting html2canvas.
CaptureTextureCode(l) ==
  IF l.glRef = "null" \/ ~l.programRef \/ l.canvasRef = "null" THEN l
  ELSE IF l.captureAge < MinCaptureInterval(l.isMobile) THEN l
  ELSE [l EXCEPT !.captureAge = 0,
                 !.captureSeq = l.captureSeq + 1,
                 !.inflight = l.inflight \cup
                    {[id |-> l.captureSeq + 1, canvasEl |-> "current",
                      originalVisibility |-> l.visibility]},
                 !.visibility = "hidden"]

\* The texture state a capture may write.
TextureState(l) == <<l.textureRef, l.texturePixels, l.pageTexture>>

\* One call of captureTexture, with a record of the request in ev: whether
\* it reached html2canvas (executed) or not (refused), whether an executed
\* request came less than one minimum capture interval (of the device
\* class it was made under) after the capture executed before it,
\* whether a refused request changed lastCaptureTime or the texture state,
\* whether a request was refused with the canvas rendered and the interval
\* over (refusedLate), and whether a request was executed with a failed
\* capture behind it (execAfterFail).  The field failed says that a capture
\* has failed and that no capture has reached html2canvas since.
CaptureTexture(l) ==
  LET r == CaptureTextureCode(l)
      executed == r.captureSeq # l.captureSeq
      early == l.captureAge < (IF l.isMobile THEN MinCaptureIntervalMobile
                               ELSE MinCaptureIntervalDesktop)
      changed == r.captureAge # l.captureAge
                 \/ TextureState(r) # TextureState(l)
  IN [r EXCEPT !.ev.executed = l.ev.executed + (IF executed THEN 1 ELSE 0),
               !.ev.refused = l.ev.refused + (IF executed THEN 0 ELSE 1),
               !.ev.execEarly = l.ev.execEarly \/ (executed /\ early),
               !.ev.refusedChanged =
                   l.ev.refusedChanged \/ (~executed /\ changed),
               !.ev.refusedLate =
                   l.ev.refusedLate
                   \/ (~executed /\ ~early /\ l.canvasRef # "null"),
               !.ev.execAfterFail =
                   l.ev.execAfterFail \/ (executed /\ l.failed),
               !.failed = l.failed /\ ~executed]

\* render(): a draw with the dimensions in pageTexture as u_pageResolution
\* and the pixels the texture holds.  pageTexture and texturePixels name the
\* capture they come from, 0 being none.
LensRender(l) ==
  IF l.glRef = "null" \/ ~l.programRef \/ ~l.textureRef \/ l.pageTexture = 0
  THEN l
  ELSE [l EXCEPT !.ev.draw = TRUE, !.ev.drawDims = l.pageTexture,
                 !.ev.drawPixels = l.texturePixels]

\* The effect "Render when position changes": a draw and, on mobile, a
\* capture request while the user interacts.
RenderEffect(l) ==
  IF l.isWebGLReady /\ l.textureRef
  THEN IF l.isMobile /\ l.isInteracting
          /\ l.captureAge > InteractionCaptureAge
       THEN CaptureTexture(LensRender(l)) ELSE LensRender(l)
  ELSE l

\* The effect "Recapture texture periodically when not interacting": its
\* cleanup clears the interval, its body arms a new one.
PeriodicEffect(l) ==
  [l EXCEPT !.refreshInterval =
      IF l.isWebGLReady /\ ~l.isInteracting
      THEN RefreshPeriod(l.isMobile) ELSE NoTimer]

\* The effect "Initialize WebGL when component mounts".
InitEffect(l) ==
  IF l.isVisible /\ l.canvasRef # "null"
  THEN LET r == InitWebGL(l)
       IN IF r.success
          THEN CaptureTexture([r.l EXCEPT !.isWebGLReady = TRUE])
          ELSE [r.l EXCEPT !.isWebGLReady = FALSE]
  ELSE l

\* resetInteractionTimeout.
ResetInteractionTimeout(l) ==
  [l EXCEPT !.isInteracting = TRUE,
            !.interactionTimeout = InteractionSettleDelay]

\* The effects that follow a pointer update: the periodic effect when
\* isInteracting changed, the render effect when x, y or isInteracting
\* changed.
AfterPointer(old, l) ==
  LET a == IF l.isInteracting # old.isInteracting THEN PeriodicEffect(l) ELSE l
  IN IF l.isInteracting # old.isInteracting \/ l.pointerPos # old.pointerPos
     THEN RenderEffect(a) ELSE a

\* Whether the lens is engaged: visible, able to draw, and with an
\* interaction in progress.
Engaged(l) == l.isVisible /\ l.isWebGLReady /\ l.isInteracting

\* What the last step did, for the properties to read: the input event and
\* whether its default was prevented, the last capture request made and the
\* capture completed; for a touch event, the number of its touches and the
\* pointer position and isInteracting it found; for the unmount, the
\* timers that were pending.  It is written anew by every step.
NoEvent ==
  [touch |-> "none", prevented |-> FALSE, engaged |-> FALSE,
   executed |-> 0, refused |-> 0, execEarly |-> FALSE,
   refusedChanged |-> FALSE, refusedLate |-> FALSE,
   execAfterFail |-> FALSE,
   done |-> "none", returned |-> "none", doneChanged |-> FALSE,
   draw |-> FALSE, drawDims |-> 0, drawPixels |-> 0, resized |-> FALSE,
   touches |-> 0, before |-> <<>>, cancelled |-> {}]

\* The state a step starts from, its event record cleared.
Begin == [lens EXCEPT !.ev = NoEvent]

LensInitial(vis, touch, vp, gl) ==
  [mounted |-> FALSE, unmounted |-> FALSE,
   isVisible |-> vis, isTouchDevice |-> touch, window |-> vp, webgl |-> gl,
   canvasRef |-> "null", visibility |-> "",
   glRef |-> "null", programRef |-> FALSE,
   textureRef |-> FALSE, texturePixels |-> 0,
   captureAge |-> AgeCap, interactionTimeout |-> NoTimer,
   refreshInterval |-> NoTimer,
   pageTexture |-> 0, isWebGLReady |-> FALSE, isMobile |-> FALSE,
   isInteracting |-> FALSE, pointerPos |-> <<0, 0>>, isLensActive |-> TRUE,
   inflight |-> {}, captureSeq |-> 0, failed |-> FALSE,
   ev |-> NoEvent]

LensInit ==
  \E vis \in BOOLEAN, touch \in BOOLEAN, vp \in Viewports,
     gl \in {"ok", "noContext", "shaderFail"} :
    /\ lens = LensInitial(vis, touch, vp, gl)
    /\ canvas = Idle
    /\ shader = Idle
    /\ page = Idle
    /\ wrap = Idle
    /\ glass = Idle

\* A step to l2, within the bound on captures.
LensStep(l2) ==
  /\ l2.captureSeq <= MaxCaptures
  /\ lens' = l2
  /\ UNCHANGED <<canvas, shader, page, wrap, glass>>

\* The first commit: the mount effects run with the state of the first
\* render (isMobile false), then the component re-renders with the state
\* they set.
LensMount ==
  /\ ~lens.mounted /\ ~lens.unmounted
  /\ LET m == LensCheckMobile(lens.isTouchDevice, lens.window[1])
         l1 == UpdateCanvasRef([Begin EXCEPT !.mounted = TRUE])
         l2 == InitEffect(l1)
         l3 == [l2 EXCEPT !.isMobile = m,
                          !.pointerPos = <<lens.window[1] \div 2,
                                           lens.window[2] \div 2>>]
         l4 == IF m THEN InitEffect(l3) ELSE l3
     IN LensStep(RenderEffect(PeriodicEffect(l4)))

LensMouseMove(p) ==
  /\ lens.mounted
  /\ LET l1 == ResetInteractionTimeout([Begin EXCEPT
                                            !.pointerPos = p])
     IN LensStep(AfterPointer(lens, l1))

\* handleTouchStart and handleTouchMove, for an event with n touches whose
\* first touch is at p.
LensTouch(kind, p, n) ==
  /\ lens.mounted
  /\ LET l0 == [Begin EXCEPT !.ev.touch = kind,
                             !.ev.touches = n,
                             !.ev.before = <<lens.pointerPos,
                                             lens.isInteracting>>,
                             !.ev.prevented = lens.isLensActive]
         l1 == IF n > 0
               THEN ResetInteractionTimeout([l0 EXCEPT !.pointerPos = p])
               ELSE l0
         l2 == [l1 EXCEPT !.ev.engaged = Engaged(l1)]
     IN LensStep(AfterPointer(lens, l2))

LensTouchStart(p, n) == LensTouch("touchstart", p, n)

LensTouchMove(p, n) == LensTouch("touchmove", p, n)

\* The settle timer armed by resetInteractionTimeout.
LensSettleTimer ==
  /\ lens.interactionTimeout = 0
  /\ LET l1 == [Begin EXCEPT !.isInteracting = FALSE,
                                      !.interactionTimeout = NoTimer]
         l2 == CaptureTexture(l1)
     IN LensStep(RenderEffect(PeriodicEffect(l2)))

\* The periodic refresh interval.
LensRefreshTimer ==
  /\ lens.refreshInterval = 0
  /\ LET l1 == [Begin EXCEPT !.refreshInterval =
                    RefreshPeriod(lens.isMobile)]
     IN LensStep(IF l1.captureAge > RefreshMinAge(l1.isMobile)
                 THEN CaptureTexture(l1) ELSE l1)

\* A catch block that also gives up the shader program.
CaptureCatchLosesProgram(l) ==
  IF l.canvasRef # "null"
  THEN [l EXCEPT !.visibility = "visible", !.programRef = FALSE]
  ELSE [l EXCEPT !.programRef = FALSE]

\* The catch block of captureTexture.
CaptureCatch(l) ==
  IF l.canvasRef # "null" THEN [l EXCEPT !.visibility = "visible"] ELSE l

\* captureTexture from its await on, for the capture c.  outcome is "ok",
\* "rasterFail" (html2canvas rejects) or "uploadFail" (texImage2D throws,
\* as it does for a tainted canvas).  React drops a state update of an
\* unmounted component.
CaptureResume(l, c, outcome) ==
  LET l0 == [l EXCEPT !.inflight = l.inflight \ {c}]
  IN IF outcome = "rasterFail" THEN CaptureCatch(l0)
     ELSE LET l1 == IF c.canvasEl = "current"
                    THEN [l0 EXCEPT !.visibility = c.originalVisibility]
                    ELSE l0
          IN IF l1.glRef = "null" THEN l1
             ELSE LET l2 == [l1 EXCEPT
                               !.pageTexture =
                                  IF l1.mounted THEN c.id ELSE l1.pageTexture,
                               !.textureRef = TRUE]
                  IN IF outcome = "ok"
                     THEN [l2 EXCEPT !.texturePixels = c.id]
                     ELSE CaptureCatch(l2)

LensCaptureDone(c, outcome) ==
  /\ c \in lens.inflight
  /\ LET l1 == CaptureResume(Begin, c, outcome)
         l2 == [l1 EXCEPT !.failed = l1.failed \/ outcome # "ok",
                          !.ev.done = outcome,
                          !.ev.returned = CaptureReturn(outcome),
                          !.ev.doneChanged =
                              (TextureState(l1) # TextureState(lens))]
     IN LensStep(IF l2.mounted /\ l2.pageTexture # lens.pageTexture
                 THEN RenderEffect(l2) ELSE l2)

\* A window resize: checkMobile; when isMobile changes the component
\* re-renders, the handlers effect is cleaned up (clearing the settle timer)
\* and the init, periodic and render effects run again.
LensResize(vp) ==
  /\ lens.mounted /\ vp # lens.window
  /\ LET m == LensCheckMobile(lens.isTouchDevice, vp[1])
         l0 == [Begin EXCEPT !.window = vp, !.ev.resized = TRUE]
     IN IF m = lens.isMobile THEN LensStep(l0)
        ELSE LET l1 == UpdateCanvasRef([l0 EXCEPT
                                           !.isMobile = m,
                                           !.interactionTimeout = NoTimer])
             IN LensStep(RenderEffect(PeriodicEffect(InitEffect(l1))))

\* A click on the toggle button (rendered on mobile only): the canvas is
\* removed or rendered again, and the handlers effect is cleaned up and
\* re-run.
LensToggle ==
  /\ lens.mounted /\ lens.isMobile
  /\ LensStep(UpdateCanvasRef([Begin EXCEPT
                                  !.isLensActive = ~lens.isLensActive,
                                  !.interactionTimeout = NoTimer]))

\* The parent changes the isVisible prop (the hold-to-reveal page).
LensSetVisible(v) ==
  /\ lens.mounted /\ v # lens.isVisible
  /\ LET l1 == InitEffect(UpdateCanvasRef([Begin EXCEPT
                                              !.isVisible = v]))
     IN LensStep(IF l1.isWebGLReady # lens.isWebGLReady
                 THEN RenderEffect(PeriodicEffect(l1)) ELSE l1)

\* The timers pending in l.
PendingTimers(l) ==
  {t \in {"settle"} : l.interactionTimeout # NoTimer}
  \cup {t \in {"refresh"} : l.refreshInterval # NoTimer}

\* An unmount whose cleanups leave the settle timer armed.
LensUnmountKeepsSettleTimer ==
  /\ lens.mounted
  /\ LensStep([RemoveCanvas(Begin) EXCEPT
                  !.mounted = FALSE, !.unmounted = TRUE,
                  !.refreshInterval = NoTimer,
                  !.ev.cancelled = PendingTimers(lens)])

\* Unmount: the effect cleanups clear both timers; React nulls canvasRef.
\* glRef, programRef and textureRef are left as they are.
LensUnmount ==
  /\ lens.mounted
  /\ LensStep([RemoveCanvas(Begin) EXCEPT
                  !.mounted = FALSE, !.unmounted = TRUE,
                  !.interactionTimeout = NoTimer,
                  !.refreshInterval = NoTimer,
                  !.ev.cancelled = PendingTimers(lens)])

\* TickMs pass; a timer that is due fires before the clock moves on.  Only
\* the mounted component and its timers read the clock.
Elapse(t) == IF t = NoTimer THEN NoTimer ELSE t - TickMs

LensTick ==
  /\ lens.mounted \/ PendingTimers(lens) # {}
  /\ lens.interactionTimeout # 0
  /\ lens.refreshInterval # 0
  /\ LensStep([Begin EXCEPT
                  !.captureAge = Min(AgeCap, lens.captureAge + TickMs),
                  !.interactionTimeout = Elapse(lens.interactionTimeout),
                  !.refreshInterval = Elapse(lens.refreshInterval)])

LensNext ==
  \/ LensMount
  \/ \E p \in PointerPositions : LensMouseMove(p)
  \/ \E p \in PointerPositions, n \in 1..MaxTouches : LensTouchStart(p, n)
  \/ \E p \in PointerPositions, n \in 1..MaxTouches : LensTouchMove(p, n)
  \/ LensSettleTimer
  \/ LensRefreshTimer
  \/ \E c \in lens.inflight, o \in {"ok", "rasterFail", "uploadFail"} :
        LensCaptureDone(c, o)
  \/ \E vp \in Viewports : LensResize(vp)
  \/ LensToggle
  \/ \E v \in BOOLEAN : LensSetVisible(v)
  \/ LensUnmount
  \/ LensTick

SpecLens == LensInit /\ [][LensNext]_vars

(***************************************************************************)
(* LiquidGlassCanvas.                                                      *)
(*                                                                         *)
(* The three versions share the structure of the component: state cells,   *)
(* a resize effect, a pointer effect, an initialisation effect and an      *)
(* animation effect.  The field variant says which version a behaviour     *)
(* runs.  A pending requestAnimationFrame callback is a record: owner is   *)
(* "effect" when its id is the one the variable animationId of the live    *)
(* animation effect holds and "orphan" otherwise, and since is the time    *)
(* from lastRender of its closure to the moment it was requested, in       *)
(* thirds of a millisecond and saturating at SinceCap.  A pending hide     *)
(* timer is a record of the time left and of whether its callback calls    *)
(* setShowLens(false), which its closure fixes when it is armed.           *)
(***************************************************************************)
CanvasVariants == {"LiquidGlassCanvas", "part_003", "part_002"}

\* Fingers on the screen at once.
MaxFingers == 2

\* The count of textures that were created and not deleted stops here.
MaxTextures == 2

TouchPoints == {<<200, 600>>, <<120, 80>>}

CanvasMobileViewportWidth == 768
OffsetUpMobile == 100
OffsetUpDesktop == 30
OffsetUpMobileTouching == 60
OffsetUpDesktopTouching == 30
HideDelay == 1000
HideDelayTouching == 500
TargetFPSMobile == 30
TargetFPSDesktop == 60

\* Frame times are in thirds of a millisecond, which makes 1000 / targetFPS
\* an integer.  The display delivers a frame callback every DisplayFrame.
ThirdsPerSecond == 3 * 1000
DisplayFrame == ThirdsPerSecond \div 60
SinceCap == ThirdsPerSecond \div TargetFPSMobile

\* checkMobile, with touch capability only.
CanvasCheckMobileTouchOnly(variant, isTouchDevice, innerWidth) ==
  variant # "part_002" /\ isTouchDevice

\* checkMobile.  part_002 has no isMobile cell and behaves as on a desktop.
CanvasCheckMobile(variant, isTouchDevice, innerWidth) ==
  /\ variant # "part_002"
  /\ (isTouchDevice \/ innerWidth <= CanvasMobileViewportWidth)

\* getOffset().y, as the distance the lens centre is moved up.
GetOffsetUp(variant, isMobile) ==
  CASE variant = "LiquidGlassCanvas" ->
         (IF isMobile THEN OffsetUpMobile ELSE OffsetUpDesktop)
    [] variant = "part_003" ->
         (IF isMobile THEN OffsetUpMobileTouching ELSE OffsetUpDesktopTouching)
    [] OTHER -> 0

\* frameInterval of the animation effect.
FrameInterval(isMobile) ==
  ThirdsPerSecond \div (IF isMobile THEN TargetFPSMobile ELSE TargetFPSDesktop)

\* The uniforms render() hands to the shader.
CanvasUniforms(c) ==
  [u_resolution |-> c.canvasSize,
   u_mousePosition |-> c.mousePosition,
   u_isMobile |-> c.isMobile]

\* render(): draws unless a context, program or texture is missing.
\* sinceDraw is the time since the previous executed draw, in thirds of a
\* millisecond and saturating at SinceCap; ev.drawGap is its value at a draw.
CanvasRender(c) ==
  IF c.glRef /\ c.programRef /\ c.textTextureRef
  THEN [c EXCEPT !.ev.draw = TRUE, !.ev.drawGap = c.sinceDraw,
                 !.sinceDraw = 0]
  ELSE c

\* initWebGL(): the canvas element exists whenever an effect runs.
CanvasInitWebGL(c) ==
  IF c.webgl = "ok"
  THEN [c |-> [c EXCEPT !.glRef = TRUE, !.programRef = TRUE], success |-> TRUE]
  ELSE [c |-> c, success |-> FALSE]

\* Words of paragraphs[k] that the model lays out.
MaxParagraphWords == 8

\* measureText() reports a width of GlyphTenths tenths of the font size for
\* every character; the browser fixes it, and a behaviour runs with one value.
GlyphTenths == {5, 6}

\* The glyph of a behaviour that leaves the 2D drawing of the text out.
NoGlyph == 0

\* Coordinates of the drawn lines are in quarters of a pixel, which makes
\* contentSize * 1.625 an integer.
QuarterPx == 4

\* textContent, every word as its number of characters.
TextContent ==
  [title |-> <<6, 2, 3, 5, 5>>,
   paragraphs |->
     << <<3, 8, 3, 7, 3, 14, 3, 5, 4, 2, 3, 6, 6, 3, 4, 3, 3, 6, 12>>,
        <<7, 3, 4, 2, 6, 3, 4, 4, 2, 7, 3, 3, 6, 4, 3, 3, 5, 5, 8, 4, 5, 7,
          2, 6, 5, 5, 3, 4, 5, 3, 5, 2, 2, 6, 5>>,
        <<7, 4, 6, 7, 4, 4, 3, 5, 4, 8, 3, 5, 4, 3, 3, 4, 2, 3, 5, 5, 2, 3,
          7>>,
        <<7, 3, 6, 3, 3, 5, 6, 2, 5, 4, 3, 6, 3, 6, 3, 3, 4, 3, 3>> >>,
   attribution |-> <<15, 10>>]

ClipWords(words) == SubSeq(words, 1, Min(MaxParagraphWords, Len(words)))

\* isMobile as createTextTexture sees it.
TextIsMobile(c) ==
  IF c.variant = "part_002" THEN c.canvasSize[1] <= CanvasMobileViewportWidth
  ELSE c.isMobile

\* The sizes and distances createTextTexture computes before it draws.
TextMetrics(c) ==
  LET mobile == TextIsMobile(c)
      wide == c.variant = "part_002"
      padding == IF wide THEN 32 ELSE IF mobile THEN 20 ELSE 64
      maxWidth == Min(672, c.canvasSize[1] - padding * 2)
  IN [titleSize |-> IF mobile THEN (IF wide THEN 48 ELSE 32) ELSE 60,
      contentSize |-> IF mobile THEN (IF wide THEN 18 ELSE 14) ELSE 20,
      maxWidth |-> maxWidth,
      x |-> CASE c.variant = "LiquidGlassCanvas" -> QuarterPx * padding
              [] c.variant = "part_003" ->
                   (QuarterPx * (c.canvasSize[1] - maxWidth)) \div 2
              [] OTHER -> (QuarterPx * c.canvasSize[1]) \div 2,
      startY |-> IF (IF wide THEN 96 ELSE 60) * 2 >= c.canvasSize[2] - 600
                 THEN QuarterPx * (IF wide THEN 96 ELSE 60)
                 ELSE (QuarterPx * (c.canvasSize[2] - 600)) \div 2,
      titleGap |-> QuarterPx * (IF wide THEN 48 ELSE IF mobile THEN 24 ELSE 48),
      paragraphGap |-> QuarterPx * (IF wide THEN 24 ELSE 16),
      attributionGap |-> QuarterPx * (IF wide THEN 48 ELSE 32),
      glyph |-> c.glyph]

\* The width test applied to the line without the space that ends it.
TooWideTrimmed(chars, size, m) ==
  (chars - 1) * size * m.glyph > m.maxWidth * 10

\* ctx.measureText(testLine).width > maxWidth, the line having chars
\* characters in a font of size px.
TooWide(chars, size, m) == chars * size * m.glyph > m.maxWidth * 10

\* The wrapping loop from word i on: the line being built starts at word from
\* and has chars characters, the space after each word included.  The result
\* is the lines handed to fillText, each as its first and last word.
RECURSIVE WrapWords(_, _, _, _, _, _)
WrapWords(words, i, from, chars, size, m) ==
  IF i > Len(words) THEN << <<from, Len(words)>> >>
  ELSE LET testLine == chars + words[i] + 1
       IN IF TooWide(testLine, size, m) /\ i > 1
          THEN << <<from, i - 1>> >>
               \o WrapWords(words, i + 1, i, words[i] + 1, size, m)
          ELSE WrapWords(words, i + 1, from, testLine, size, m)

\* The fillText calls of one wrapped text: line k at currentY + (k - 1) step.
FillLines(part, ranges, x, y, step) ==
  [k \in 1 .. Len(ranges) |->
     [part |-> part, from |-> ranges[k][1], to |-> ranges[k][2],
      x |-> x, y |-> y + (k - 1) * step]]

\* paragraphs.forEach from paragraph k on, currentY being y.
RECURSIVE FillParagraphs(_, _, _), FillParagraph(_, _, _, _, _)
FillParagraphs(k, y, m) ==
  IF k > Len(TextContent.paragraphs) THEN [lines |-> <<>>, y |-> y]
  ELSE FillParagraph(k, y, m,
         WrapWords(ClipWords(TextContent.paragraphs[k]), 1, 1, 0,
                   m.contentSize, m),
         (m.contentSize * 13 * QuarterPx) \div 8)

\* Paragraph k, wrapped into ranges, and the paragraphs after it.
FillParagraph(k, y, m, ranges, step) ==
  LET gap == IF k < Len(TextContent.paragraphs) THEN m.paragraphGap
             ELSE 2 * m.paragraphGap
      rest == FillParagraphs(k + 1, y + Len(ranges) * step + gap, m)
  IN [lines |-> FillLines(k, ranges, m.x, y, step) \o rest.lines,
      y |-> rest.y]

\* The fillText calls for the title lines, then the paragraphs, then the
\* attribution, m being the sizes and distances.
TextLayoutFrom(m, title, titleStep) ==
  LET body == FillParagraphs(1, m.startY + Len(title) * titleStep + m.titleGap,
                             m)
      attributionStep == (m.contentSize * 5 * QuarterPx) \div 4 + 4 * QuarterPx
  IN FillLines(0, title, m.x, m.startY, titleStep)
     \o body.lines
     \o [k \in 1 .. Len(TextContent.attribution) |->
          [part |-> Len(TextContent.paragraphs) + 1, from |-> k, to |-> k,
           x |-> m.x,
           y |-> body.y + m.attributionGap + (k - 1) * attributionStep]]

TextLayout(m) ==
  TextLayoutFrom(m, WrapWords(TextContent.title, 1, 1, 0, m.titleSize, m),
                 (m.titleSize * 5 * QuarterPx) \div 4)

\* The drawn lines with the pointer's x as the left edge.
CanvasTextLayoutAtPointer(c) ==
  TextLayout([TextMetrics(c) EXCEPT !.x = QuarterPx * c.mousePosition[1]])

\* The fillText calls of createTextTexture, in order: the title (part 0), the
\* paragraphs (parts 1 to 4) and the attribution.
CanvasTextLayout(c) == TextLayout(TextMetrics(c))

\* What a run of createTextTexture was given.
TextInputs(c) ==
  [size |-> c.canvasSize, isMobile |-> TextIsMobile(c), glyph |-> c.glyph]

\* gl.createTexture() and the upload of the text canvas.  textures counts the
\* textures created and not deleted; the component never calls
\* gl.deleteTexture.
CreateTexture(c) ==
  [c EXCEPT !.textures = Min(MaxTextures, c.textures + 1)]

\* The record of a run of createTextTexture: lines is what the run drew,
\* drawn is every run so far with what it was given, and ev.retextured says
\* that an earlier run was given the same.
FillText(c, lines) ==
  [c EXCEPT !.lines = lines,
            !.ev.retextured = \E d \in c.drawn : d.inputs = TextInputs(c),
            !.drawn = c.drawn
                        \cup {[inputs |-> TextInputs(c), lines |-> lines]}]

\* createTextTexture(): null without a context.
CanvasCreateTextTexture(c) ==
  IF ~c.glRef THEN [c |-> c, texture |-> FALSE]
  ELSE IF c.glyph = NoGlyph THEN [c |-> CreateTexture(c), texture |-> TRUE]
  ELSE [c |-> FillText(CreateTexture(c), CanvasTextLayout(c)),
        texture |-> TRUE]

\* The end of the effect "Initialize everything": c is the state after
\* initWebGL() and t the result of createTextTexture().
KeepTexture(c, t) ==
  IF t.texture THEN [t.c EXCEPT !.textTextureRef = TRUE, !.isReady = TRUE]
  ELSE c

\* The effect "Initialize everything".  textContent is a new object in every
\* render, so createTextTexture is a new callback and the effect runs after
\* every render.
CanvasInitEffect(c) ==
  IF c.canvasSize[1] > 0 /\ c.canvasSize[2] > 0
  THEN IF CanvasInitWebGL(c).success
       THEN KeepTexture(CanvasInitWebGL(c).c,
                        CanvasCreateTextTexture(CanvasInitWebGL(c).c))
       ELSE CanvasInitWebGL(c).c
  ELSE c

\* A cleanup of the animation effect that cancels nothing.
AnimationCleanupNone(c) == c

\* The cleanup of the animation effect: cancelAnimationFrame(animationId).
AnimationCleanup(c) ==
  [c EXCEPT !.rafPending = {cb \in c.rafPending : cb.owner # "effect"},
            !.ev.cancelled = \E cb \in c.rafPending : cb.owner = "effect"]

\* requestAnimationFrame(animate) only after a draw.
RequestFrameAfterDraw(c, since) ==
  IF ~c.ev.draw THEN c
  ELSE [c EXCEPT !.rafPending =
          {[cb EXCEPT !.owner = "orphan"] : cb \in c.rafPending}
          \cup {[owner |-> "effect", since |-> since]}]

\* requestAnimationFrame(animate) for the live effect; callbacks of earlier
\* effects that are still pending are no longer the one animationId names.
RequestFrame(c, since) ==
  [c EXCEPT !.rafPending =
      {[cb EXCEPT !.owner = "orphan"] : cb \in c.rafPending}
      \cup {[owner |-> "effect", since |-> since]}]

\* animate(currentTime) up to its requestAnimationFrame, elapsed being
\* currentTime - lastRender: the state after the possible draw, and the new
\* currentTime - lastRender.
Animate(c, elapsed) ==
  IF c.variant = "part_002"
  THEN [c |-> CanvasRender(c), since |-> SinceCap]
  ELSE IF elapsed >= FrameInterval(c.isMobile)
       THEN [c |-> CanvasRender(c), since |-> 0]
       ELSE [c |-> c, since |-> elapsed]

\* The body of the animation effect: lastRender = 0 and animate(0) (animate()
\* in part_002).  Every later callback sees a currentTime far from 0.
StartLoop(c) ==
  IF ~c.isReady THEN [c EXCEPT !.looping = FALSE]
  ELSE LET a == Animate(c, 0)
       IN [RequestFrame(a.c, SinceCap) EXCEPT !.looping = TRUE]

\* The initialisation effect after the render that setIsReady(true) causes,
\* c0 being the state after the effect ran on c.
InitEffectAgain(c, c0) ==
  IF c0.isReady # c.isReady THEN CanvasInitEffect(c0) ELSE c0

\* The animation effect after a re-render from old to c1.
AnimationEffect(old, c1, renderChanged) ==
  IF renderChanged \/ c1.isReady # old.isReady \/ c1.isMobile # old.isMobile
  THEN StartLoop(IF old.looping THEN AnimationCleanup(c1) ELSE c1)
  ELSE c1

\* The effects after a re-render.  old is the state at the previous commit and
\* renderChanged says that setCanvasSize or setMousePosition was called (each
\* call passes a new object), which makes render a new callback.  The
\* initialisation effect runs, and runs once more after the render that its
\* setIsReady(true) causes.  The animation effect depends on isReady, render
\* and isMobile.
CanvasEffects(old, c, renderChanged) ==
  AnimationEffect(old, InitEffectAgain(c, CanvasInitEffect(c)), renderChanged)

\* handleMouseMove.
HandleMouseMove(c, p) ==
  IF c.variant = "part_002"
  THEN [c EXCEPT !.mousePosition = p, !.ev.moved = TRUE]
  ELSE [c EXCEPT
          !.mousePosition = <<p[1], p[2] - GetOffsetUp(c.variant, c.isMobile)>>,
          !.ev.moved = TRUE,
          !.showLens = IF ~c.isMobile THEN TRUE ELSE c.showLens]

\* handleTouchStart of LiquidGlassCanvas.tsx, e.touches.length being n.
HandleTouchStart(c, p, n) ==
  IF c.isMobile /\ n = 1
  THEN [c EXCEPT
          !.mousePosition = <<p[1], p[2] - GetOffsetUp(c.variant, c.isMobile)>>,
          !.ev.moved = TRUE,
          !.showLens = TRUE]
  ELSE c

\* handleTouchMove of LiquidGlassCanvas.tsx.
HandleTouchMove(c, p, n) ==
  IF c.isMobile /\ n = 1 /\ c.showLens
  THEN [c EXCEPT
          !.mousePosition = <<p[1], p[2] - GetOffsetUp(c.variant, c.isMobile)>>,
          !.ev.moved = TRUE]
  ELSE c

\* handleTouchEnd of LiquidGlassCanvas.tsx.
HandleTouchEnd(c) ==
  IF c.isMobile
  THEN [c EXCEPT !.hideTimers = c.hideTimers
                     \cup {[left |-> HideDelay, hides |-> TRUE]}]
  ELSE c

\* handleTouchStart of part_003.
TouchingHandleTouchStart(c, p, n) ==
  IF c.isMobile /\ n = 1
  THEN [c EXCEPT
          !.mousePosition = <<p[1], p[2] - GetOffsetUp(c.variant, c.isMobile)>>,
          !.ev.moved = TRUE,
          !.showLens = TRUE,
          !.isTouching = TRUE,
          !.ev.prevented = TRUE]
  ELSE c

\* handleTouchMove of part_003.
TouchingHandleTouchMove(c, p, n) ==
  IF c.isMobile /\ n = 1 /\ c.isTouching
  THEN [c EXCEPT
          !.mousePosition = <<p[1], p[2] - GetOffsetUp(c.variant, c.isMobile)>>,
          !.ev.moved = TRUE,
          !.showLens = TRUE,
          !.ev.prevented = TRUE]
  ELSE c

\* handleTouchEnd of part_003.  The timer callback tests the isTouching of
\* the render that created the handler.
TouchingHandleTouchEnd(c) ==
  IF c.isMobile
  THEN [c EXCEPT !.isTouching = FALSE,
                 !.hideTimers = c.hideTimers
                     \cup {[left |-> HideDelayTouching,
                            hides |-> ~c.isTouching]}]
  ELSE c

\* handleTouchCancel of part_003.
TouchingHandleTouchCancel(c) ==
  IF c.isMobile
  THEN [c EXCEPT !.isTouching = FALSE, !.showLens = FALSE]
  ELSE c

NoCanvasEvent ==
  [touch |-> "none", point |-> <<0, 0>>, touches |-> 0, prevented |-> FALSE,
   moved |-> FALSE, draw |-> FALSE, hid |-> FALSE, cancelled |-> FALSE,
   retextured |-> FALSE, drawGap |-> 0]

CanvasBegin == [canvas EXCEPT !.ev = NoCanvasEvent]

CanvasInitial(variant, touch, vp, gl, glyph) ==
  [variant |-> variant, glyph |-> glyph, lines |-> <<>>, drawn |-> {},
   sinceDraw |-> SinceCap, textures |-> 0, mounted |-> FALSE, unmounted |-> FALSE,
   isTouchDevice |-> touch, window |-> vp, webgl |-> gl,
   glRef |-> FALSE, programRef |-> FALSE, textTextureRef |-> FALSE,
   mousePosition |-> <<0, 0>>, isReady |-> FALSE, canvasSize |-> <<0, 0>>,
   isMobile |-> FALSE, showLens |-> FALSE, isTouching |-> FALSE,
   looping |-> FALSE, rafPending |-> {}, hideTimers |-> {}, fingers |-> 0,
   ev |-> NoCanvasEvent]

CanvasInit ==
  /\ \E variant \in CanvasVariants, touch \in BOOLEAN, vp \in Viewports,
        gl \in {"ok", "noContext"} :
       canvas = CanvasInitial(variant, touch, vp, gl, NoGlyph)
  /\ lens = Idle
  /\ shader = Idle
  /\ page = Idle
  /\ wrap = Idle
  /\ glass = Idle

CanvasStep(c2) ==
  /\ canvas' = c2
  /\ UNCHANGED <<lens, shader, page, wrap, glass>>

\* The first commit: checkMobile() and updateSize() run in the mount effects
\* and the component re-renders with isMobile and canvasSize set.
CanvasMount ==
  /\ ~canvas.mounted /\ ~canvas.unmounted
  /\ LET c1 == [CanvasBegin EXCEPT
                  !.mounted = TRUE,
                  !.isMobile = CanvasCheckMobile(canvas.variant,
                                   canvas.isTouchDevice, canvas.window[1]),
                  !.canvasSize = canvas.window]
     IN CanvasStep(CanvasEffects(canvas, c1, TRUE))

\* A mousemove on the document.
CanvasMouseMove(p) ==
  /\ canvas.mounted
  /\ LET c1 == HandleMouseMove(CanvasBegin, p)
     IN CanvasStep(CanvasEffects(canvas, c1, c1.ev.moved))

\* A touchstart on the document: one more finger, at p.
CanvasTouchStart(p) ==
  /\ canvas.mounted
  /\ canvas.fingers < MaxFingers
  /\ LET n == canvas.fingers + 1
         c0 == [CanvasBegin EXCEPT !.fingers = n, !.ev.touch = "touchstart",
                                   !.ev.point = p, !.ev.touches = n]
         c1 == CASE canvas.variant = "LiquidGlassCanvas" ->
                      HandleTouchStart(c0, p, n)
                 [] canvas.variant = "part_003" ->
                      TouchingHandleTouchStart(c0, p, n)
                 [] OTHER -> c0
     IN CanvasStep(CanvasEffects(canvas, c1, c1.ev.moved))

\* A touchmove on the document.
CanvasTouchMove(p) ==
  /\ canvas.mounted
  /\ canvas.fingers >= 1
  /\ LET n == canvas.fingers
         c0 == [CanvasBegin EXCEPT !.ev.touch = "touchmove",
                                   !.ev.point = p, !.ev.touches = n]
         c1 == CASE canvas.variant = "LiquidGlassCanvas" ->
                      HandleTouchMove(c0, p, n)
                 [] canvas.variant = "part_003" ->
                      TouchingHandleTouchMove(c0, p, n)
                 [] OTHER -> c0
     IN CanvasStep(CanvasEffects(canvas, c1, c1.ev.moved))

\* A touchend on the document: one finger less.
CanvasTouchEnd ==
  /\ canvas.mounted
  /\ canvas.fingers >= 1
  /\ LET c0 == [CanvasBegin EXCEPT !.fingers = canvas.fingers - 1,
                                   !.ev.touch = "touchend",
                                   !.ev.touches = canvas.fingers - 1]
         c1 == CASE canvas.variant = "LiquidGlassCanvas" -> HandleTouchEnd(c0)
                 [] canvas.variant = "part_003" -> TouchingHandleTouchEnd(c0)
                 [] OTHER -> c0
     IN CanvasStep(CanvasEffects(canvas, c1, FALSE))

\* A touchcancel on the document: one finger less.  Only part_003 listens.
CanvasTouchCancel ==
  /\ canvas.mounted
  /\ canvas.fingers >= 1
  /\ LET c0 == [CanvasBegin EXCEPT !.fingers = canvas.fingers - 1,
                                   !.ev.touch = "touchcancel",
                                   !.ev.touches = canvas.fingers - 1]
         c1 == IF canvas.variant = "part_003"
               THEN TouchingHandleTouchCancel(c0) ELSE c0
     IN CanvasStep(CanvasEffects(canvas, c1, FALSE))

\* A hide timer fires.  React drops the update of an unmounted component.
CanvasHideTimer(t) ==
  /\ t \in canvas.hideTimers
  /\ t.left = 0
  /\ LET c0 == [CanvasBegin EXCEPT !.hideTimers = canvas.hideTimers \ {t}]
         c1 == IF t.hides /\ canvas.mounted
               THEN [c0 EXCEPT !.showLens = FALSE,
                               !.ev.hid = canvas.showLens]
               ELSE c0
     IN CanvasStep(IF canvas.mounted THEN CanvasEffects(canvas, c1, FALSE)
                   ELSE c1)

\* A resize of the window: checkMobile() and updateSize().
CanvasResize(vp) ==
  /\ canvas.mounted
  /\ LET c1 == [CanvasBegin EXCEPT
                  !.window = vp,
                  !.isMobile = CanvasCheckMobile(canvas.variant,
                                   canvas.isTouchDevice, vp[1]),
                  !.canvasSize = vp]
     IN CanvasStep(CanvasEffects(canvas, c1, TRUE))

\* A pending frame callback runs, one display frame after it was requested.
CanvasFrame(cb) ==
  /\ cb \in canvas.rafPending
  /\ LET c0 == [CanvasBegin EXCEPT
                  !.rafPending = canvas.rafPending \ {cb},
                  !.sinceDraw = Min(SinceCap, canvas.sinceDraw + DisplayFrame)]
         a == Animate(c0, Min(SinceCap, cb.since + DisplayFrame))
     IN CanvasStep(IF cb.owner = "effect"
                   THEN RequestFrame(a.c, a.since)
                   ELSE [a.c EXCEPT !.rafPending = a.c.rafPending
                            \cup {[owner |-> "orphan", since |-> a.since]}])

\* The component is removed: the cleanups of the effects run.
CanvasUnmount ==
  /\ canvas.mounted
  /\ LET c1 == IF canvas.looping THEN AnimationCleanup(CanvasBegin)
               ELSE CanvasBegin
     IN CanvasStep([c1 EXCEPT !.mounted = FALSE, !.unmounted = TRUE,
                              !.looping = FALSE])

\* Half a second passes without a frame being delivered.
CanvasTick ==
  /\ canvas.mounted \/ canvas.hideTimers # {}
  /\ \A t \in canvas.hideTimers : t.left > 0
  /\ CanvasStep([CanvasBegin EXCEPT
       !.hideTimers = {[t EXCEPT !.left = t.left - HideDelayTouching] :
                         t \in canvas.hideTimers},
       !.rafPending = {[cb EXCEPT !.since = SinceCap] :
                         cb \in canvas.rafPending},
       !.sinceDraw = SinceCap])

CanvasNext ==
  \/ CanvasMount
  \/ \E p \in TouchPoints : CanvasMouseMove(p)
  \/ \E p \in TouchPoints : CanvasTouchStart(p)
  \/ \E p \in TouchPoints : CanvasTouchMove(p)
  \/ CanvasTouchEnd
  \/ CanvasTouchCancel
  \/ \E t \in canvas.hideTimers : CanvasHideTimer(t)
  \/ \E vp \in Viewports : CanvasResize(vp)
  \/ \E cb \in canvas.rafPending : CanvasFrame(cb)
  \/ CanvasUnmount
  \/ CanvasTick

SpecCanvas == CanvasInit /\ [][CanvasNext]_vars

\* The component with the 2D drawing of the text, in the two versions that
\* have an isMobile cell and with a WebGL context.
TextInit ==
  /\ \E variant \in {"LiquidGlassCanvas", "part_003"}, touch \in BOOLEAN,
        vp \in Viewports, glyph \in GlyphTenths :
       canvas = CanvasInitial(variant, touch, vp, "ok", glyph)
  /\ lens = Idle
  /\ shader = Idle
  /\ page = Idle
  /\ wrap = Idle
  /\ glass = Idle

\* The events that make the component render again at once; frame callbacks
\* and timers are left out, since createTextTexture reads nothing they write.
TextNext ==
  \/ CanvasMount
  \/ \E p \in TouchPoints : CanvasMouseMove(p)
  \/ \E p \in TouchPoints : CanvasTouchStart(p)
  \/ \E p \in TouchPoints : CanvasTouchMove(p)
  \/ CanvasTouchEnd
  \/ CanvasTouchCancel
  \/ \E vp \in Viewports : CanvasResize(vp)
  \/ CanvasUnmount

SpecText == TextInit /\ [][TextNext]_vars

(***************************************************************************)
(* The word-wrapping loop on its own: any list of at most MaxWords words,  *)
(* each given by its number of characters (0 is the empty word that two    *)
(* spaces in a row make), and any of the widths WrapWidths, measured in    *)
(* characters of a font of WrapFontSize px whose characters are half the   *)
(* font size wide.                                                         *)
(***************************************************************************)
MaxWords == 4
MaxWordChars == 3

WrapWidths == 2 .. 6

WrapFontSize == 2
WrapLineHeight == 5
WrapStartY == 60

WordLists ==
  UNION {[1 .. n -> 0 .. MaxWordChars] : n \in 1 .. MaxWords}

WrapMetrics(w) == [glyph |-> 5, maxWidth |-> w.maxWidth]

WrapInit ==
  /\ \E words \in WordLists, maxWidth \in WrapWidths :
       wrap = [words |-> words, maxWidth |-> maxWidth, ran |-> FALSE,
               lines |-> <<>>]
  /\ lens = Idle
  /\ canvas = Idle
  /\ shader = Idle
  /\ page = Idle
  /\ glass = Idle

\* The loop and the fillText after it run on wrap.words.
WrapDraw ==
  /\ ~wrap.ran
  /\ wrap' = [wrap EXCEPT
       !.ran = TRUE,
       !.lines = FillLines(0,
                   WrapWords(wrap.words, 1, 1, 0, WrapFontSize,
                             WrapMetrics(wrap)),
                   0, WrapStartY, WrapLineHeight)]
  /\ UNCHANGED <<lens, canvas, shader, page, glass>>

\* The viewport changes and the text is to be drawn again.
WrapResize(maxWidth) ==
  /\ wrap.ran
  /\ maxWidth # wrap.maxWidth
  /\ wrap' = [wrap EXCEPT !.maxWidth = maxWidth, !.ran = FALSE,
                          !.lines = <<>>]
  /\ UNCHANGED <<lens, canvas, shader, page, glass>>

WrapNext ==
  \/ WrapDraw
  \/ \E maxWidth \in WrapWidths : WrapResize(maxWidth)

SpecWrap == WrapInit /\ [][WrapNext]_vars

(***************************************************************************)
(* The fragment shaders of LiquidGlassCanvas.                              *)
(*                                                                         *)
(* A shader invocation is a pure function of the uniforms and of the       *)
(* texture coordinate of the fragment.  Coordinates are exact rationals,   *)
(* a pair <<numerator, denominator>> in lowest terms with a positive       *)
(* denominator; the rounding of GLSL floats is not modelled.  Distances    *)
(* appear squared, which keeps them rational: for non-negative a and b,    *)
(* a < b is a*a < b*b.  The model computes which zone of the lens a        *)
(* fragment falls in and which of the effects (displacement of the sample  *)
(* coordinate, per-channel sampling, tint, spectrum blend, shimmer) the    *)
(* shader applies to it; the size of a displacement involves pow, sin and  *)
(* atan and is not computed.  The field sampling says whether the sample   *)
(* coordinate lies in the texture ("inside") or outside it, where          *)
(* CLAMP_TO_EDGE resolves it ("clamped"); it is "notComputed" in the       *)
(* zones whose displacement is not computed.                               *)
(***************************************************************************)
ShaderVariants == {"LiquidGlassCanvas", "part_002"}

\* The sides of the viewports in which fragments are shaded, in pixels.
GridLong == 16
GridShort == 12

\* A phone in portrait, of which the model shades a window of pixels at the
\* top edge, below the middle of it.
PhoneViewport == <<360, 640>>

Resolutions ==
  {<<GridLong, GridShort>>, <<GridShort, GridLong>>, <<GridShort, GridShort>>,
   PhoneViewport}

Pixels(res) ==
  IF res = PhoneViewport
  THEN (res[1] \div 2 - 2 .. res[1] \div 2 + 1) \X (0 .. 3)
  ELSE (0 .. res[1] - 1) \X (0 .. res[2] - 1)

\* The pixel at which the model starts to walk a viewport.
FirstPixel(res) == IF res = PhoneViewport THEN <<res[1] \div 2, 0>> ELSE <<0, 0>>

\* Pointer positions: the middle, a corner, and above the top edge (where
\* the upward offset of the lens puts it for a pointer near the top).
ShaderPointers(res) ==
  {<<res[1] \div 2, res[2] \div 2>>, <<1, 1>>, <<res[1] \div 2, 0 - 1>>}
  \cup (IF res = PhoneViewport
        THEN {<<res[1] \div 2, 60 - OffsetUpMobile>>}
        ELSE {})

LensRadiusMobilePct == 20
LensRadiusDesktopPct == 12
LensRadiusMouseOnlyPct == 15
ClearZonePct == 60
ClearZoneOffsetPct == 3
ChromaticPct == 75
PrismPct == 85
DistortionMouseOnlyPct == 30
ChromaticMouseOnlyPct == 60
PrismMouseOnlyPct == 80
ShimmerMouseOnlyPct == 50

\* The thresholds of the shaders of LiquidGlassLens.tsx and of
\* HeresToTheCrazyOnes.tsx, in hundredths of the lens radius.
LensDistortionPct == 60
LensChromaticPct == 60
LensPrismPct == 85
PageDistortionMobilePct == 70
PageDistortionDesktopPct == 60
PageChromaticPct == 60
PagePrismPct == 85

ZoneShaders == {"LiquidGlassCanvas", "LiquidGlassLens", "HeresToTheCrazyOnes"}

\* The normalizedDist, in hundredths, beyond which a shader bends the sample
\* (clear), samples the three channels apart (chromatic) and blends the
\* spectrum in (prism).
ZoneThresholds(variant, isMobile) ==
  CASE variant = "LiquidGlassCanvas" ->
         [clear |-> ClearZonePct, chromatic |-> ChromaticPct,
          prism |-> PrismPct]
    [] variant = "LiquidGlassLens" ->
         [clear |-> LensDistortionPct, chromatic |-> LensChromaticPct,
          prism |-> LensPrismPct]
    [] variant = "HeresToTheCrazyOnes" ->
         [clear |-> IF isMobile THEN PageDistortionMobilePct
                    ELSE PageDistortionDesktopPct,
          chromatic |-> PageChromaticPct,
          prism |-> PagePrismPct]

Abs(x) == IF x < 0 THEN 0 - x ELSE x

RECURSIVE GCD(_, _)
GCD(a, b) == IF b = 0 THEN a ELSE GCD(b, a % b)

Rat(n, d) ==
  LET g == GCD(Abs(n), Abs(d))
      sgn == IF d < 0 THEN 0 - 1 ELSE 1
  IN <<(sgn * n) \div g, (sgn * d) \div g>>

RAdd(a, b) ==
  LET g == GCD(a[2], b[2])
  IN Rat(a[1] * (b[2] \div g) + b[1] * (a[2] \div g), (a[2] \div g) * b[2])
RNeg(a) == <<0 - a[1], a[2]>>
RSub(a, b) == RAdd(a, RNeg(b))
RMul(a, b) ==
  LET g1 == GCD(Abs(a[1]), b[2])
      g2 == GCD(Abs(b[1]), a[2])
  IN Rat((a[1] \div g1) * (b[1] \div g2), (a[2] \div g2) * (b[2] \div g1))
RDiv(a, b) == RMul(a, Rat(b[2], b[1]))
\* n1/d1 < n2/d2 for n1, n2 >= 0 and d1, d2 > 0, by comparing the integer
\* parts and then the reciprocals of the fractional parts, which keeps every
\* intermediate value below the operands.
RECURSIVE LessNonNeg(_, _, _, _)
LessNonNeg(n1, d1, n2, d2) ==
  IF n1 \div d1 # n2 \div d2 THEN n1 \div d1 < n2 \div d2
  ELSE IF n2 % d2 = 0 THEN FALSE
  ELSE IF n1 % d1 = 0 THEN TRUE
  ELSE LessNonNeg(d2, n2 % d2, d1, n1 % d1)

RLess(a, b) ==
  IF a[1] < 0
  THEN IF b[1] < 0 THEN LessNonNeg(0 - b[1], b[2], 0 - a[1], a[2]) ELSE TRUE
  ELSE IF b[1] < 0 THEN FALSE ELSE LessNonNeg(a[1], a[2], b[1], b[2])
Pct(n) == Rat(n, 100)
Half == Rat(1, 2)
One == Rat(1, 1)

\* v_texCoord at the centre of the fragment: the quad maps the top-left
\* corner of the canvas to (0, 0) and the bottom-right one to (1, 1).
TexCoord(frag, res) ==
  <<Rat(2 * frag[1] + 1, 2 * res[1]), Rat(2 * frag[2] + 1, 2 * res[2])>>

\* mouse = u_mousePosition / u_resolution.
ShaderMouse(u) ==
  <<Rat(u.u_mousePosition[1], u.u_resolution[1]),
    Rat(u.u_mousePosition[2], u.u_resolution[2])>>

\* aspectRatio = u_resolution.x / u_resolution.y.
AspectRatio(u) == Rat(u.u_resolution[1], u.u_resolution[2])

\* No aspect correction: distances are taken between texture coordinates.
AspectNone(u, v) == v

\* The aspect correction of LiquidGlassCanvas.tsx, applied to uv and to mouse.
AspectCorrect(u, v) ==
  IF RLess(One, AspectRatio(u))
  THEN <<RAdd(RMul(RSub(v[1], Half), AspectRatio(u)), Half), v[2]>>
  ELSE <<v[1], RAdd(RDiv(RSub(v[2], Half), AspectRatio(u)), Half)>>

\* The space in which the shader of a version measures distances.
ShaderSpace(variant, u, v) ==
  IF variant = "part_002" THEN AspectNone(u, v) ELSE AspectCorrect(u, v)

\* distance(a, b), squared.
DistSq(a, b) ==
  RAdd(RMul(RSub(a[1], b[1]), RSub(a[1], b[1])),
       RMul(RSub(a[2], b[2]), RSub(a[2], b[2])))

\* dist, squared.
ShaderDistSq(variant, u, uv) ==
  DistSq(ShaderSpace(variant, u, uv), ShaderSpace(variant, u, ShaderMouse(u)))

\* lensRadius.
ShaderLensRadius(variant, isMobile) ==
  IF variant = "part_002" THEN Pct(LensRadiusMouseOnlyPct)
  ELSE IF isMobile THEN Pct(LensRadiusMobilePct)
  ELSE Pct(LensRadiusDesktopPct)

\* A lens test against the diameter instead of the radius.
InsideLensDiameter(distSq, lensRadius) ==
  RLess(distSq, RMul(Rat(4, 1), RMul(lensRadius, lensRadius)))

\* dist < lensRadius.
InsideLens(distSq, lensRadius) == RLess(distSq, RMul(lensRadius, lensRadius))

\* normalizedDist = dist / lensRadius, squared.
NormalizedDistSq(variant, u, uv) ==
  LET r == ShaderLensRadius(variant, u.u_isMobile)
  IN RDiv(ShaderDistSq(variant, u, uv), RMul(r, r))

\* normalizedDist > pct / 100.
Beyond(ndSq, pct) == RLess(RMul(Pct(pct), Pct(pct)), ndSq)

\* t - d * k lies outside [0, 1], for a coordinate t strictly between 0 and
\* 1, a difference d and a factor k >= 0 given by its square.
AxisLeavesTexture(t, d, kSq) ==
  \/ d[1] > 0 /\ RLess(RMul(RDiv(t, d), RDiv(t, d)), kSq)
  \/ d[1] < 0 /\ RLess(RMul(RDiv(RSub(One, t), d), RDiv(RSub(One, t), d)), kSq)

\* The sample coordinate of the clear zone lies outside the texture.  In
\* texture space screenOffset is (uv - mouse) * 0.03 * normalizedDist on both
\* axes (the aspect factor applied to aspectUV - aspectMouse is divided out
\* again), and sampleUV = uv - screenOffset.
ClearZoneLeavesTexture(u, uv, ndSq) ==
  LET kSq == RMul(RMul(Pct(ClearZoneOffsetPct), Pct(ClearZoneOffsetPct)), ndSq)
  IN \/ AxisLeavesTexture(uv[1], RSub(uv[1], ShaderMouse(u)[1]), kSq)
     \/ AxisLeavesTexture(uv[2], RSub(uv[2], ShaderMouse(u)[2]), kSq)

\* What texture2D does with a coordinate: the texture is created with
\* CLAMP_TO_EDGE, so a coordinate outside [0, 1] yields the edge texel.
Texture2D(outside) == IF outside THEN "clamped" ELSE "inside"

\* What the shader does to a fragment outside the lens: one sample at uv.
PlainSample(uv) ==
  [lens |-> FALSE, uv |-> uv, displaced |-> FALSE, split |-> FALSE,
   tint |-> FALSE, prism |-> FALSE, shimmer |-> FALSE,
   sampling |-> Texture2D(FALSE)]

\* main() of LiquidGlassCanvas.tsx.
FragmentShaderCanvas(u, uv) ==
  LET variant == "LiquidGlassCanvas"
      distSq == ShaderDistSq(variant, u, uv)
      ndSq == NormalizedDistSq(variant, u, uv)
  IN IF InsideLens(distSq, ShaderLensRadius(variant, u.u_isMobile))
     THEN [lens |-> TRUE, uv |-> uv,
           displaced |-> Beyond(ndSq, ClearZonePct) \/ ndSq # Rat(0, 1),
           split |-> Beyond(ndSq, ChromaticPct),
           tint |-> ~Beyond(ndSq, ChromaticPct),
           prism |-> Beyond(ndSq, PrismPct),
           shimmer |-> FALSE,
           sampling |-> IF Beyond(ndSq, ClearZonePct) THEN "notComputed"
                        ELSE Texture2D(ClearZoneLeavesTexture(u, uv, ndSq))]
     ELSE PlainSample(uv)

\* main() of part_002.
FragmentShaderMouseOnly(u, uv) ==
  LET variant == "part_002"
      distSq == ShaderDistSq(variant, u, uv)
      ndSq == NormalizedDistSq(variant, u, uv)
  IN IF InsideLens(distSq, ShaderLensRadius(variant, u.u_isMobile))
     THEN [lens |-> TRUE, uv |-> uv,
           displaced |-> Beyond(ndSq, DistortionMouseOnlyPct),
           split |-> Beyond(ndSq, ChromaticMouseOnlyPct),
           tint |-> ~Beyond(ndSq, ChromaticMouseOnlyPct),
           prism |-> Beyond(ndSq, PrismMouseOnlyPct),
           shimmer |-> /\ ~Beyond(ndSq, ChromaticMouseOnlyPct)
                       /\ Beyond(ndSq, ShimmerMouseOnlyPct),
           sampling |-> IF Beyond(ndSq, DistortionMouseOnlyPct)
                        THEN "notComputed" ELSE Texture2D(FALSE)]
     ELSE PlainSample(uv)

FragmentShader(variant, u, uv) ==
  IF variant = "part_002" THEN FragmentShaderMouseOnly(u, uv)
  ELSE FragmentShaderCanvas(u, uv)

\* The shader run for the fragment frag of a draw with uniforms u.
Shade(variant, u, frag) ==
  [variant |-> variant, u |-> u, frag |-> frag,
   out |-> FragmentShader(variant, u, TexCoord(frag, u.u_resolution))]

ShaderInit ==
  /\ \E variant \in ShaderVariants, res \in Resolutions, mobile \in BOOLEAN :
       /\ variant = "part_002" => ~mobile
       /\ shader = Shade(variant,
                         [u_resolution |-> res,
                          u_mousePosition |-> <<res[1] \div 2, res[2] \div 2>>,
                          u_isMobile |-> mobile],
                         FirstPixel(res))
  /\ lens = Idle
  /\ canvas = Idle
  /\ page = Idle
  /\ wrap = Idle
  /\ glass = Idle

\* A draw with the pointer at m.
ShaderDraw(m) ==
  /\ shader' = Shade(shader.variant,
                     [shader.u EXCEPT !.u_mousePosition = m], shader.frag)
  /\ UNCHANGED <<lens, canvas, page, wrap, glass>>

\* The fragment at pixel p of the current draw.  A draw shades every pixel;
\* the model walks the grid from a pixel to one next to it.
ShaderFragment(p) ==
  /\ Abs(p[1] - shader.frag[1]) + Abs(p[2] - shader.frag[2]) = 1
  /\ shader' = Shade(shader.variant, shader.u, p)
  /\ UNCHANGED <<lens, canvas, page, wrap, glass>>

ShaderNext ==
  \/ \E m \in ShaderPointers(shader.u.u_resolution) : ShaderDraw(m)
  \/ \E p \in Pixels(shader.u.u_resolution) : ShaderFragment(p)

SpecShader == ShaderInit /\ [][ShaderNext]_vars

(***************************************************************************)
(* The hold-to-reveal page.                                                *)
(*                                                                         *)
(* held is the set of mouse buttons that are down.  The document receives  *)
(* a mousedown for every press and a mouseup for every release while the   *)
(* listeners are attached.  ev is the last event and the isVisible it met. *)
(***************************************************************************)
\* MouseEvent.button runs from 0 to MaxButton.
MaxButton == 4

LeftButton == 0

Buttons == 0 .. MaxButton

\* handleMouseDown.
PageHandleMouseDown(p, button) ==
  IF button = LeftButton
  THEN [p EXCEPT !.isPressed = TRUE, !.isVisible = TRUE]
  ELSE p

\* handleMouseUp without the test of e.button.
PageHandleMouseUpAnyButton(p, button) ==
  [p EXCEPT !.isPressed = FALSE, !.isVisible = FALSE]

\* handleMouseUp.
PageHandleMouseUp(p, button) ==
  IF button = LeftButton
  THEN [p EXCEPT !.isPressed = FALSE, !.isVisible = FALSE]
  ELSE p

PageInit ==
  /\ page = [mounted |-> FALSE, unmounted |-> FALSE, isVisible |-> FALSE,
             isPressed |-> FALSE, held |-> {},
             ev |-> [kind |-> "none", button |-> LeftButton, was |-> FALSE]]
  /\ lens = Idle
  /\ canvas = Idle
  /\ shader = Idle
  /\ wrap = Idle
  /\ glass = Idle

PageStep(p2) ==
  /\ page' = p2
  /\ UNCHANGED <<lens, canvas, shader, wrap, glass>>

\* The first commit: the effect attaches the two listeners.
PageMount ==
  /\ ~page.mounted /\ ~page.unmounted
  /\ PageStep([page EXCEPT !.mounted = TRUE, !.ev.kind = "none"])

\* A button goes down and the document receives mousedown.
PageMouseDown(button) ==
  /\ page.mounted
  /\ button \notin page.held
  /\ PageStep(PageHandleMouseDown(
         [page EXCEPT !.held = page.held \cup {button},
                      !.ev = [kind |-> "mousedown", button |-> button,
                              was |-> page.isVisible]],
         button))

\* A button goes up and the document receives mouseup.
PageMouseUp(button) ==
  /\ page.mounted
  /\ button \in page.held
  /\ PageStep(PageHandleMouseUp(
         [page EXCEPT !.held = page.held \ {button},
                      !.ev = [kind |-> "mouseup", button |-> button,
                              was |-> page.isVisible]],
         button))

\* The page is left: the cleanup removes the listeners.
PageUnmount ==
  /\ page.mounted
  /\ PageStep([page EXCEPT !.mounted = FALSE, !.unmounted = TRUE,
                           !.ev.kind = "none"])

PageNext ==
  \/ PageMount
  \/ \E button \in Buttons : PageMouseDown(button)
  \/ \E button \in Buttons : PageMouseUp(button)
  \/ PageUnmount

SpecPage == PageInit /\ [][PageNext]_vars

(***************************************************************************)
(* Lens (LiquidGlass/Lens.tsx) with useWebGL.                              *)
(*                                                                         *)
(* The hook keeps the context and the program in refs and returns          *)
(* glRef.current as gl: the component sees, in gl, what glRef held when it *)
(* last rendered.  position is the prop (NoPosition when it is not         *)
(* given), currentPosition the state cell (NoPosition for null).           *)
(***************************************************************************)
NoPosition == <<>>

GlassPositions == {NoPosition, <<200, 600>>, <<100, 100>>}

\* initialize of useWebGL: the context and the program of the canvas in
\* canvasRef, stored in the refs when everything succeeded.
GlassInitialize(g) ==
  IF g.canvasRef = "null" THEN [g EXCEPT !.initialize = "noCanvas"]
  ELSE IF g.webgl # "ok" THEN [g EXCEPT !.initialize = "failed"]
  ELSE [g EXCEPT !.glRef = "current", !.programRef = TRUE,
                 !.initialize = "done"]

\* The return statement of Lens: null without isVisible, gl or
\* currentPosition, the canvas otherwise.
GlassCanvasPresent(g) ==
  g.isVisible /\ g.gl /\ g.currentPosition # NoPosition

\* A render and its commit: useWebGL returns glRef.current, and React
\* attaches canvasRef to the canvas the component returned or nulls it.
GlassRender(g) ==
  LET r == [g EXCEPT !.gl = (g.glRef # "null")]
  IN [r EXCEPT !.canvasRef =
        IF GlassCanvasPresent(r) THEN "canvas" ELSE "null"]

\* The effect "Set initial position after mount", deps [position].
GlassInitialPositionEffect(g) ==
  [g EXCEPT !.currentPosition =
      IF g.position # NoPosition THEN g.position
      ELSE <<g.window[1] \div 2, g.window[2] \div 2>>]

\* The effect "Initialize WebGL", deps [isVisible, initialize].
GlassInitializeEffect(g) ==
  IF g.isVisible /\ g.canvasRef # "null" THEN GlassInitialize(g) ELSE g

\* The effect "Handle position updates", deps [position,
\* handleTextureUpdate]; handleTextureUpdate returns at once without gl.
GlassPositionEffect(g) ==
  IF g.position # NoPosition
  THEN [g EXCEPT !.currentPosition = g.position]
  ELSE g

GlassInitial(vis, position, vp, gl) ==
  [mounted |-> FALSE, unmounted |-> FALSE, isVisible |-> vis,
   position |-> position, window |-> vp, webgl |-> gl,
   canvasRef |-> "null", glRef |-> "null", programRef |-> FALSE,
   gl |-> FALSE, currentPosition |-> NoPosition, initialize |-> "never"]

GlassInit ==
  /\ \E vis \in BOOLEAN, position \in GlassPositions, vp \in Viewports,
        gl \in {"ok", "noContext", "shaderFail"} :
       glass = GlassInitial(vis, position, vp, gl)
  /\ lens = Idle
  /\ canvas = Idle
  /\ shader = Idle
  /\ page = Idle
  /\ wrap = Idle

GlassStep(g2) ==
  /\ glass' = g2
  /\ UNCHANGED <<lens, canvas, shader, page, wrap>>

\* The first render, the three effects in the order of the source, and the
\* render that the state they set brings about.
GlassMount ==
  /\ ~glass.mounted /\ ~glass.unmounted
  /\ LET g1 == GlassRender([glass EXCEPT !.mounted = TRUE])
         g2 == GlassPositionEffect(
                 GlassInitializeEffect(GlassInitialPositionEffect(g1)))
     IN GlassStep(GlassRender(g2))

\* The parent changes isVisible: a render and the initialize effect.
GlassSetVisible(v) ==
  /\ glass.mounted /\ v # glass.isVisible
  /\ GlassStep(GlassInitializeEffect(
                 GlassRender([glass EXCEPT !.isVisible = v])))

\* The parent changes position: a render, the two position effects, and
\* the render that the state they set brings about.
GlassSetPosition(position) ==
  /\ glass.mounted /\ position # glass.position
  /\ LET g1 == GlassRender([glass EXCEPT !.position = position])
         g2 == GlassPositionEffect(GlassInitialPositionEffect(g1))
     IN GlassStep(GlassRender(g2))

\* The window is resized; the component has no resize listener.
GlassResize(vp) ==
  /\ glass.mounted /\ vp # glass.window
  /\ GlassStep([glass EXCEPT !.window = vp])

GlassUnmount ==
  /\ glass.mounted
  /\ GlassStep([glass EXCEPT !.mounted = FALSE, !.unmounted = TRUE,
                             !.canvasRef = "null"])

GlassNext ==
  \/ GlassMount
  \/ \E v \in BOOLEAN : GlassSetVisible(v)
  \/ \E position \in GlassPositions : GlassSetPosition(position)
  \/ \E vp \in Viewports : GlassResize(vp)
  \/ GlassUnmount

SpecGlass == GlassInit /\ [][GlassNext]_vars

(***************************************************************************)
(* Properties of LiquidGlassLens                                           *)
(***************************************************************************)

\* C1: capture throttling.  Of the capture requests made within one minimum
\* capture interval (1000 ms desktop, 2000 ms mobile) at most one reaches
\* html2canvas: a request is executed only when at least the interval has
\* passed since the capture executed before it, at most one request of a
\* step (all made at the same time) is executed, and a request that is
\* refused leaves lastCaptureTime, the texture and pageTexture unchanged.
C1_CaptureThrottled ==
  /\ lens.ev.executed <= 1
  /\ ~lens.ev.execEarly
  /\ ~lens.ev.refusedChanged

\* C1 witness: a request refused by the throttle, some time after a capture
\* was executed and while the component could capture.
C1_Witness ==
  /\ lens.ev.refused > 0
  /\ lens.captureSeq >= 1
  /\ lens.captureAge > 0
  /\ lens.captureAge < MinCaptureInterval(lens.isMobile)
  /\ lens.glRef # "null" /\ lens.programRef /\ lens.canvasRef # "null"

\* C3 (as claimed): a capture whose rasterization completes after the
\* unmount is discarded: it neither sets pageTexture nor creates or uploads
\* the texture.
C3_LateCaptureDiscarded ==
  (lens.unmounted /\ lens.ev.done # "none") => ~lens.ev.doneChanged

\* C4 (as claimed): when rasterization or the texture upload fails, the
\* texture and pageTexture are left as they were, and the caller of
\* captureTexture is handed something that differs from what a successful
\* capture hands it.
C4_FailedCaptureReported ==
  lens.ev.done \in {"rasterFail", "uploadFail"} =>
     /\ ~lens.ev.doneChanged
     /\ lens.ev.returned # CaptureReturn("ok")

\* C5 (as claimed): touchstart and touchmove are default-prevented only
\* while the lens is engaged (visible, WebGL ready, interaction in
\* progress, the touch itself counting as interaction).
C5_PreventOnlyWhenEngaged ==
  lens.ev.prevented => lens.ev.engaged

(***************************************************************************)
(* Properties of LiquidGlassCanvas                                         *)
(***************************************************************************)

\* C2: teardown of the frame loop.  Once LiquidGlassCanvas is unmounted no
\* animation-frame callback is pending and no step draws, whatever frame
\* callbacks, pointer events and resizes came before the unmount.
C2_NoFrameAfterUnmount ==
  canvas.unmounted => (canvas.rafPending = {} /\ ~canvas.ev.draw)

\* C2 witness: an unmount that cancelled the pending frame callback of a
\* running loop, in LiquidGlassCanvas.tsx.
C2_Witness ==
  /\ canvas.variant = "LiquidGlassCanvas"
  /\ canvas.unmounted
  /\ canvas.isReady
  /\ canvas.ev.cancelled

\* C6 (as claimed): in part_003 on a touch device, once every finger has been
\* lifted (by touchend or touchcancel, no touchstart since) and every hide
\* timer armed by a touchend has fired, the lens is hidden.
C6_HiddenAfterTouchEnd ==
  (/\ canvas.variant = "part_003"
   /\ canvas.mounted
   /\ canvas.isTouchDevice
   /\ canvas.fingers = 0
   /\ canvas.hideTimers = {})
  => ~canvas.showLens

\* C7 (as claimed): in LiquidGlassCanvas.tsx a hide timer never turns
\* showLens from true to false while a finger is on the screen.
C7_NoHideWhileFingerDown ==
  (canvas.variant = "LiquidGlassCanvas" /\ canvas.ev.hid)
  => canvas.fingers = 0

\* C8: in LiquidGlassCanvas.tsx a single-finger touchstart at (x, y) on a
\* viewport at most 768 px wide leaves showLens true, hands the renderer
\* the pointer position (x, y - 100), the mobile offset and not the desktop
\* one, and makes the shader use the mobile lens radius and not the desktop
\* one.
C8_MobileTouchStart ==
  (/\ canvas.variant = "LiquidGlassCanvas"
   /\ canvas.ev.touch = "touchstart"
   /\ canvas.ev.touches = 1
   /\ canvas.window[1] <= 768)
  => /\ canvas.showLens
     /\ CanvasUniforms(canvas).u_mousePosition
          = <<canvas.ev.point[1], canvas.ev.point[2] - OffsetUpMobile>>
     /\ CanvasUniforms(canvas).u_mousePosition
          # <<canvas.ev.point[1], canvas.ev.point[2] - OffsetUpDesktop>>
     /\ ShaderLensRadius(canvas.variant, CanvasUniforms(canvas).u_isMobile)
          = Pct(LensRadiusMobilePct)
     /\ ShaderLensRadius(canvas.variant, CanvasUniforms(canvas).u_isMobile)
          # Pct(LensRadiusDesktopPct)

\* C8 witness: such a touchstart at (200, 600), on a narrow viewport of a
\* device without touch capability and of one with it.
C8_Witness ==
  /\ canvas.variant = "LiquidGlassCanvas"
  /\ canvas.ev.touch = "touchstart"
  /\ canvas.ev.touches = 1
  /\ canvas.ev.point = <<200, 600>>
  /\ canvas.window[1] <= 768
  /\ ~canvas.isTouchDevice
  /\ canvas.isReady

(***************************************************************************)
(* Properties of the fragment shaders                                      *)
(***************************************************************************)

\* Twice the on-screen distance, squared, from the centre of pixel p to the
\* pointer position m, in pixels.
PixelDistSq4(p, m) ==
  (2 * p[1] + 1 - 2 * m[1]) * (2 * p[1] + 1 - 2 * m[1])
  + (2 * p[2] + 1 - 2 * m[2]) * (2 * p[2] + 1 - 2 * m[2])

ShortSide(res) == Min(res[1], res[2])

\* The on-screen distance from pixel p to the pointer is at least the lens
\* radius r times the shorter side of the viewport.
AtLeastLensRadius(p, u, r) ==
  PixelDistSq4(p, u.u_mousePosition) * r[2] * r[2]
    >= 4 * ShortSide(u.u_resolution) * ShortSide(u.u_resolution) * r[1] * r[1]

\* C9: in the shader of LiquidGlassCanvas.tsx a fragment whose
\* aspect-corrected distance to the pointer is at least the lens radius
\* gets the texture sampled once at its own coordinate, with no
\* displacement, tint, channel split or spectrum blend.
C9_IdentityOutsideLens ==
  (/\ shader.variant = "LiquidGlassCanvas"
   /\ AtLeastLensRadius(shader.frag, shader.u,
                        ShaderLensRadius(shader.variant, shader.u.u_isMobile)))
  => shader.out = PlainSample(TexCoord(shader.frag, shader.u.u_resolution))

\* C9 witness: a fragment outside the lens but less than two radii from
\* the pointer, in a viewport that is not square.
C9_Witness ==
  /\ shader.variant = "LiquidGlassCanvas"
  /\ shader.u.u_resolution[1] # shader.u.u_resolution[2]
  /\ AtLeastLensRadius(shader.frag, shader.u,
                       ShaderLensRadius(shader.variant, shader.u.u_isMobile))
  /\ ~AtLeastLensRadius(shader.frag, shader.u,
                        RMul(Rat(2, 1), ShaderLensRadius(shader.variant,
                                                         shader.u.u_isMobile)))

\* The fragment at pixel q is inside the lens of the current draw.
InLens(q) ==
  InsideLens(ShaderDistSq(shader.variant, shader.u,
                          TexCoord(q, shader.u.u_resolution)),
             ShaderLensRadius(shader.variant, shader.u.u_isMobile))

\* C11 (as claimed): no sample taken inside the lens has a coordinate outside
\* [0, 1] x [0, 1] that is resolved by clamping into a visible colour.
C11_NoClampedSample ==
  shader.out.lens => shader.out.sampling # "clamped"

C13_OneFramePending ==
  (canvas.mounted /\ canvas.isReady) => Cardinality(canvas.rafPending) = 1

\* The animation effect was restarted by a pointer move, its cleanup cancelled
\* the pending callback, and one callback is pending.
C13_Witness ==
  /\ canvas.mounted /\ canvas.isReady
  /\ canvas.variant = "part_003"
  /\ canvas.ev.moved /\ canvas.ev.cancelled
  /\ Cardinality(canvas.rafPending) = 1

\* C14 (as claimed): a draw is executed only when at least the target
\* interval has passed since the previous executed draw.
C14_DrawsAtLeastIntervalApart ==
  canvas.ev.draw => canvas.ev.drawGap >= FrameInterval(canvas.isMobile)

\* C15 (as claimed): in every shader and for the device class of the current
\* draw, 0 < clear threshold < chromatic threshold < prism threshold <= 1.
C15_ZonesStrictlyNested ==
  \A v \in ZoneShaders :
    LET t == ZoneThresholds(v, shader.u.u_isMobile)
    IN 0 < t.clear /\ t.clear < t.chromatic /\ t.chromatic < t.prism
       /\ t.prism <= 100

\* C16 (as claimed): isWebGLReady is never true while no program has been
\* linked, which is what initWebGL reporting failure on every call until a
\* program is linked amounts to.
C16_ReadyOnlyWithProgram == lens.isWebGLReady => lens.programRef

\* C17 (as claimed): at most one texture created by createTextTexture exists
\* without having been deleted.
C17_AtMostOneTexture == canvas.textures <= 1

\* C18 (as claimed): no draw runs with the dimensions of one capture and the
\* pixels of another.
C18_DrawDimsMatchPixels ==
  (lens.ev.draw /\ lens.ev.drawPixels # 0)
    => lens.ev.drawDims = lens.ev.drawPixels

\* C19: on the hold-to-reveal page, while its listeners are attached,
\* isVisible says that the left mouse button is down, and a press or release
\* of another button leaves isVisible as it was.
C19_VisibleWhileLeftHeld ==
  page.mounted =>
    /\ page.isVisible <=> LeftButton \in page.held
    /\ (page.ev.kind # "none" /\ page.ev.button # LeftButton)
         => page.isVisible = page.ev.was

\* The left button was released while another button stayed down, and the
\* lens was hidden.
C19_Witness ==
  /\ page.mounted
  /\ page.ev.kind = "mouseup" /\ page.ev.button = LeftButton /\ page.ev.was
  /\ page.held # {}
  /\ ~page.isVisible

\* C20 (as claimed): a resize of the viewport of a lens that is visible and
\* initialised makes a capture request, whether or not the device class
\* changes.
C20_ResizeRequestsCapture ==
  (lens.ev.resized /\ lens.isVisible /\ lens.isWebGLReady /\ lens.programRef)
    => lens.ev.executed + lens.ev.refused >= 1

\* The characters of words from to to of the list, with the space that
\* follows each of them.
RECURSIVE LineChars(_, _, _)
LineChars(words, from, to) ==
  IF from > to THEN 0
  ELSE words[to] + 1 + LineChars(words, from, to - 1)

\* A text of chars characters is measured wider than the maximum width.
Exceeds(chars) == chars * WrapFontSize * 5 > wrap.maxWidth * 10

\* C21: the wrapping loop draws every word once and in order; a new line
\* starts at a word exactly when the line before it with that word and the
\* space after it is measured wider than the maximum width; no drawn line of
\* two or more words is wider than the maximum width; and every line is one
\* line height below the line before it.
C21_GreedyWrap ==
  wrap.ran =>
    LET l == wrap.lines
        n == Len(wrap.words)
    IN /\ Len(l) >= 1
       /\ l[1].from = 1 /\ l[Len(l)].to = n
       /\ \A k \in 1 .. Len(l) :
            /\ l[k].from <= l[k].to
            /\ k < Len(l) => l[k + 1].from = l[k].to + 1
            /\ k < Len(l) =>
                 Exceeds(LineChars(wrap.words, l[k].from, l[k].to + 1))
            /\ \A i \in l[k].from + 1 .. l[k].to :
                 ~Exceeds(LineChars(wrap.words, l[k].from, i))
            /\ l[k].to > l[k].from =>
                 ~Exceeds(LineChars(wrap.words, l[k].from, l[k].to) - 1)
            /\ l[k].y = WrapStartY + (k - 1) * WrapLineHeight

\* A run that broke the text into three lines or more, one of them with two
\* words or more and the first of them a single word wider than the maximum
\* width.
C21_Witness ==
  /\ wrap.ran
  /\ Len(wrap.lines) >= 3
  /\ \E k \in 1 .. Len(wrap.lines) : wrap.lines[k].to > wrap.lines[k].from
  /\ wrap.lines[1].to = 1 /\ Exceeds(wrap.words[1] + 1)

\* C22: once input stops, isInteracting returns to false and a capture is
\* executed.  Only the settle timer sets isInteracting to false, and while
\* isInteracting is true the periodic refresh is not armed; so, for
\* isInteracting to return to false without further input, the settle timer
\* must be pending whenever the mounted component has isInteracting true.
C22_InteractingHasSettleTimer ==
  (lens.mounted /\ lens.isVisible /\ lens.isWebGLReady
     /\ lens.isInteracting) =>
     lens.interactionTimeout # NoTimer

\* C23: a failed capture does not block later ones.  With a failed capture
\* behind it, a capture request made with the canvas rendered and at least
\* one minimum capture interval after the last attempt is not refused; and
\* while the component is mounted and not interacting, the periodic refresh
\* that makes such a request is armed.
C23_FailureDoesNotBlock ==
  /\ lens.ev.refusedLate => ~lens.failed
  /\ (lens.mounted /\ lens.failed /\ ~lens.isInteracting) =>
       lens.refreshInterval # NoTimer

\* The periodic refresh requests a capture after a failed one, with nobody
\* interacting, and the request reaches html2canvas.
C23_Witness ==
  /\ lens.ev.execAfterFail
  /\ lens.ev.executed = 1
  /\ ~lens.isInteracting
  /\ lens.mounted
  /\ lens.refreshInterval = RefreshPeriod(lens.isMobile)

\* C24: a touchstart or touchmove with more than one active touch leaves
\* the pointer position and the activation of the lens as they were.
C24_MultiTouchIgnored ==
  lens.ev.touches > 1 =>
    lens.ev.before = <<lens.pointerPos, lens.isInteracting>>

\* C25: after WebGL initialisation has failed (the canvas is rendered, the
\* init effect has run and isWebGLReady is false), a touchstart or touchmove
\* is not default-prevented and not stopped from propagating.
C25_FailedLensLeavesTouchAlone ==
  (/\ lens.ev.touch # "none"
   /\ lens.mounted /\ lens.canvasRef # "null"
   /\ lens.webgl # "ok" /\ ~lens.isWebGLReady) =>
     ~lens.ev.prevented

\* C26: whenever no capture is in flight, the rendered lens canvas is not
\* hidden: every capture restores the visibility it changed.
C26_NotLeftHidden ==
  (lens.inflight = {} /\ lens.canvasRef # "null") =>
     lens.visibility # "hidden"

\* C27: whenever the lens is visible, its canvas rendered, isWebGLReady
\* true and the program linked, the WebGL context in glRef, which the
\* program belongs to and the draws go to, is that of the canvas element
\* that is mounted.
C27_ContextOfMountedCanvas ==
  (lens.mounted /\ lens.isVisible /\ lens.canvasRef # "null"
     /\ lens.isWebGLReady /\ lens.programRef) =>
     lens.glRef = "current"

\* C28: Lens mounted with isVisible true where WebGL is available runs
\* initialize and renders its canvas.  No action of the model leaves work
\* pending (there is no timer and no await), so a state it reaches lasts
\* until the parent changes a prop: the canvas must be rendered, and
\* initialize done, in every state with the component mounted and visible.
C28_LensInitialized ==
  (glass.mounted /\ glass.isVisible /\ glass.webgl = "ok") =>
     (glass.canvasRef # "null" /\ glass.initialize = "done")

\* C29: after unmount captureTexture is not invoked: no step taken with the
\* component torn down makes a capture request, executed or refused, and no
\* timer is left pending.
C29_NoCaptureAfterUnmount ==
  lens.unmounted =>
    /\ lens.ev.executed = 0 /\ lens.ev.refused = 0
    /\ PendingTimers(lens) = {}

\* The component is unmounted with WebGL ready, the settle timer pending and
\* a capture still in flight.
C29_Witness ==
  /\ lens.unmounted
  /\ lens.isWebGLReady
  /\ "settle" \in lens.ev.cancelled
  /\ lens.inflight # {}

\* C10 (as claimed): in the LiquidGlassCanvas shaders, two fragments of the
\* lens at the same on-screen pixel distance from the pointer get the same
\* normalizedDist, in landscape, portrait and square viewports.
C10_EqualRadiusEqualNormalizedDist ==
  \A q \in Pixels(shader.u.u_resolution) :
    (/\ PixelDistSq4(q, shader.u.u_mousePosition)
          = PixelDistSq4(shader.frag, shader.u.u_mousePosition)
     /\ InLens(shader.frag)
     /\ InLens(q))
    => NormalizedDistSq(shader.variant, shader.u,
                        TexCoord(q, shader.u.u_resolution))
       = NormalizedDistSq(shader.variant, shader.u,
                          TexCoord(shader.frag, shader.u.u_resolution))

\* The shader of LiquidGlassCanvas.tsx taken alone: normalizedDist is the
\* on-screen pixel distance over lensRadius times the shorter side.
AspectCorrectedNormalizedDist ==
  shader.variant = "LiquidGlassCanvas" =>
    LET r == ShaderLensRadius(shader.variant, shader.u.u_isMobile)
        short == ShortSide(shader.u.u_resolution)
    IN NormalizedDistSq(shader.variant, shader.u,
                        TexCoord(shader.frag, shader.u.u_resolution))
       = Rat(PixelDistSq4(shader.frag, shader.u.u_mousePosition) * r[2] * r[2],
             4 * short * short * r[1] * r[1])
====
